---- MODULE Spec2Model ----
(***************************************************************************)
(* DriveGreen backend: the CO2 prediction service of                       *)
(* backend/routers/predict_router.py and its later revision                *)
(* backend/routers/prediction_router.py.                                   *)
(*                                                                         *)
(* Units.  engine_size is held in hundredths of a litre (0.9 L = 90,       *)
(* 8.4 L = 840), cylinders as an integer.  A CO2 value before rounding     *)
(* (actual_co2) is held in thousandths of g/km, the rounded co2_value in   *)
(* hundredths of g/km (120.00 g/km = 12000).  A value on the log scale is  *)
(* the record [ln |-> m]: the natural logarithm of m/1000.                 *)
(***************************************************************************)
EXTENDS Integers, Sequences, FiniteSets, TLC

VARIABLES
    router,     \* which revision of the router module is deployed
    boot,       \* position of the module-level loading code
    model,      \* module global `model`
    encoder,    \* module global `encoder`
    scaler,     \* module global `scaler`
    req,        \* the request slots: one record per request in flight
    served,     \* number of /predict requests answered so far
    aux,        \* last answer of /health, /fuel-types or /model-info
    analytics_file,  \* content of chatbot_analytics.json
    track       \* per worker process: its position in track_request

vars == <<router, boot, model, encoder, scaler, req, served, aux, analytics_file, track>>

artifacts == <<model, encoder, scaler>>

(***************************************************************************)
(* Bounds of the model.                                                    *)
(***************************************************************************)
MaxRequests == 2        \* /predict requests answered in one behaviour
MaxEngine == 900        \* widest engine_size drawn (9.00 L), in 0.01 L
MaxCylinders == 18      \* widest cylinders value drawn
MaxCo2 == 26000         \* widest CO2 value drawn (260.00 g/km), in 0.01 g/km
MaxTracks == 2          \* /chat requests one worker process handles

Routers == {"predict_router", "prediction_router"}
Requests == {1}

(***************************************************************************)
(* Python values.                                                          *)
(***************************************************************************)
None == [kind |-> "None"]

Ok(v) == [ok |-> TRUE, value |-> v]
Raise(exc, msg) == [ok |-> FALSE, exc |-> exc, msg |-> msg]

\* mutant: np.log1p for np.log: ln(1 + m/1000)
np_log1p(m) == [ln |-> m + 1000]

\* np.log / np.exp on the symbolic log scale: Ln(m) is ln(m/1000)
np_log(m) == [ln |-> m]
np_exp(y) == y.ln

(***************************************************************************)
(* The artifacts joblib.load can yield.  The pickles are not part of the   *)
(* repository: an encoder is described by its category order and its drop  *)
(* parameter, a scaler and a regressor by the number of columns they were  *)
(* fitted on.                                                              *)
(***************************************************************************)
SortedCategories == <<"D", "E", "N", "X", "Z">>

Encoders ==
    { [kind |-> "OneHotEncoder", categories |-> SortedCategories, drop |-> "None"],
      [kind |-> "OneHotEncoder", categories |-> SortedCategories, drop |-> "first"] }

Scalers ==
    { [kind |-> "StandardScaler", n_features_in |-> 7],
      [kind |-> "StandardScaler", n_features_in |-> 6] }

Models == { [kind |-> "XGBRegressor", n_features_in |-> 7] }

\* the artifact triple of a consistent training run
TrainedModel == [kind |-> "XGBRegressor", n_features_in |-> 7]
TrainedEncoder == [kind |-> "OneHotEncoder", categories |-> SortedCategories, drop |-> "None"]
TrainedScaler == [kind |-> "StandardScaler", n_features_in |-> 7]

(***************************************************************************)
(* PredictionInput: the request schema and its validators.                 *)
(***************************************************************************)
\* mutant: one code of the Literal forgotten
FuelTypeLiteral_without_N == {"X", "Z", "E", "D"}

FuelTypeLiteral == {"X", "Z", "E", "D", "N"}

\* mutant: the lower bound made exclusive
validate_engine_size_exclusive(v) ==
    IF v <= 90 \/ v > 840
    THEN Raise("ValueError", "Engine size must be between 0.9 and 8.4 liters")
    ELSE Ok(v)

\* mutant: the upper bound made exclusive
validate_cylinders_exclusive(v) ==
    IF v < 3 \/ v >= 16
    THEN Raise("ValueError", "Cylinders must be between 3 and 16")
    ELSE Ok(v)

\* mutant: the cylinders validator raises with the text of the engine one
validate_cylinders_engine_text(v) ==
    IF v < 3 \/ v > 16
    THEN Raise("ValueError", "Engine size must be between 0.9 and 8.4 liters")
    ELSE Ok(v)

validate_engine_size(v) ==
    IF v < 90 \/ v > 840
    THEN Raise("ValueError", "Engine size must be between 0.9 and 8.4 liters")
    ELSE Ok(v)

validate_cylinders(v) ==
    IF v < 3 \/ v > 16
    THEN Raise("ValueError", "Cylinders must be between 3 and 16")
    ELSE Ok(v)

\* the errors pydantic collects for a request body, in field order, one per
\* failing field, each naming its field; the empty list accepts the request
PredictionInput(fuel_type, engine_size, cylinders) ==
    LET e == validate_engine_size(engine_size)
        c == validate_cylinders(cylinders)
    IN  (IF fuel_type \in FuelTypeLiteral THEN <<>>
         ELSE <<[loc |-> "fuel_type", msg |-> "Input should be 'X', 'Z', 'E', 'D' or 'N'"]>>)
        \o (IF e.ok THEN <<>> ELSE <<[loc |-> "engine_size", msg |-> e.msg]>>)
        \o (IF c.ok THEN <<>> ELSE <<[loc |-> "cylinders", msg |-> c.msg]>>)

(***************************************************************************)
(* The artifacts' methods, as far as the routers use them.                 *)
(***************************************************************************)
\* columns the encoder emits: every category, or all but the first
encoder_columns(enc) ==
    IF enc.drop = "first" THEN Tail(enc.categories) ELSE enc.categories

\* encoder.get_feature_names_out(["fuel_type"])
get_feature_names_out(enc) ==
    [i \in 1..Len(encoder_columns(enc)) |-> <<"fuel_type", encoder_columns(enc)[i]>>]

\* mutant: the indicator columns follow the order of the request schema's
\* Literal, whatever order the artifact was fitted with
encoder_transform_hardcoded(enc, fuel_type) ==
    IF \A i \in 1..Len(enc.categories) : enc.categories[i] # fuel_type
    THEN Raise("ValueError", "Found unknown categories in column 0 during transform")
    ELSE Ok([i \in 1..Len(encoder_columns(enc)) |->
                IF <<"X", "Z", "E", "D", "N">>[i] = fuel_type THEN 1 ELSE 0])

\* encoder.transform(df[["fuel_type"]]): one indicator per emitted column;
\* a category the encoder was not fitted on is an error (handle_unknown='error')
encoder_transform(enc, fuel_type) ==
    IF \A i \in 1..Len(enc.categories) : enc.categories[i] # fuel_type
    THEN Raise("ValueError", "Found unknown categories in column 0 during transform")
    ELSE Ok([i \in 1..Len(encoder_columns(enc)) |->
                IF encoder_columns(enc)[i] = fuel_type THEN 1 ELSE 0])

\* scaler.transform(combined): standardises every column in place, and
\* refuses a frame whose width is not the width it was fitted on
scaler_transform(sc, combined) ==
    IF Len(combined) # sc.n_features_in
    THEN Raise("ValueError", "X has a different number of features than StandardScaler is expecting")
    ELSE Ok([i \in 1..Len(combined) |-> [scaled |-> combined[i].value, column |-> i]])

\* model.predict(scaled_features): the possible results of the regressor on a
\* vector: a value on the log scale (drawn from Out, in 0.001 g/km), or an
\* unexpected failure of the call; a vector of the wrong width is refused
\* A regressor whose fitted trees are known (field trees: vector -> result) is
\* the function of its vector that the trees compute.
model_predict(m, features, Out) ==
    IF Len(features) # m.n_features_in
    THEN { Raise("ValueError", "Feature shape mismatch") }
    ELSE IF "trees" \in DOMAIN m
    THEN { m.trees[features] }
    ELSE { Ok(np_log(y)) : y \in Out }
         \cup { Raise("RuntimeError", "regressor call failed") }

(***************************************************************************)
(* preprocess_input: log transform, one-hot encoding, assembly, scaling.   *)
(* The result carries the collaborators it has called (calls).             *)
(***************************************************************************)
\* mutant: num_df taken as df[["cylinders", "engine_size(l)"]]
Assemble_cylinders_first(log_engine_size, log_cylinders, enc, cat_encoded) ==
    << [name |-> <<"cylinders">>, value |-> log_cylinders],
       [name |-> <<"engine_size(l)">>, value |-> log_engine_size] >>
    \o [i \in 1..Len(cat_encoded) |->
           [name |-> get_feature_names_out(enc)[i], value |-> cat_encoded[i]]]

Assemble(log_engine_size, log_cylinders, enc, cat_encoded) ==
    << [name |-> <<"engine_size(l)">>, value |-> log_engine_size],
       [name |-> <<"cylinders">>, value |-> log_cylinders] >>
    \o [i \in 1..Len(cat_encoded) |->
           [name |-> get_feature_names_out(enc)[i], value |-> cat_encoded[i]]]

\* predict_router.py: no guard on the globals; a None encoder or scaler is
\* an AttributeError on the method call
preprocess_input_predict_router(fuel_type, engine_size, cylinders) ==
    LET log_engine_size == np_log(engine_size * 10)
        log_cylinders == np_log(cylinders * 1000)
        cat == IF encoder = None
               THEN Raise("AttributeError", "'NoneType' object has no attribute 'transform'")
               ELSE encoder_transform(encoder, fuel_type)
    IN  IF ~cat.ok
        THEN cat @@ [calls |-> {"np.log"}
                                    \cup (IF encoder = None THEN {} ELSE {"encoder.transform"})]
        ELSE LET combined == Assemble(log_engine_size, log_cylinders, encoder, cat.value)
                 scaled == IF scaler = None
                           THEN Raise("AttributeError", "'NoneType' object has no attribute 'transform'")
                           ELSE scaler_transform(scaler, combined)
             IN  scaled @@ [calls |-> {"np.log", "encoder.transform"}
                                       \cup (IF scaler = None THEN {} ELSE {"scaler.transform"})]

\* prediction_router.py: the same pipeline with the two None guards
preprocess_input_prediction_router(fuel_type, engine_size, cylinders) ==
    LET log_engine_size == np_log(engine_size * 10)
        log_cylinders == np_log(cylinders * 1000)
    IN  IF encoder = None
        THEN Raise("ValueError", "Encoder not loaded. Cannot perform one-hot encoding.")
             @@ [calls |-> {"np.log"}]
        ELSE LET cat == encoder_transform(encoder, fuel_type)
             IN  IF ~cat.ok
                 THEN cat @@ [calls |-> {"np.log", "encoder.transform"}]
                 ELSE LET combined == Assemble(log_engine_size, log_cylinders, encoder, cat.value)
                      IN  IF scaler = None
                          THEN Raise("ValueError", "Scaler not loaded. Cannot perform feature scaling.")
                               @@ [calls |-> {"np.log", "encoder.transform"}]
                          ELSE scaler_transform(scaler, combined)
                               @@ [calls |-> {"np.log", "encoder.transform", "scaler.transform"}]

preprocess_input(fuel_type, engine_size, cylinders) ==
    IF router = "predict_router"
    THEN preprocess_input_predict_router(fuel_type, engine_size, cylinders)
    ELSE preprocess_input_prediction_router(fuel_type, engine_size, cylinders)

(***************************************************************************)
(* utils/preprocess.py: preprocess_input(df, encoder, scaler), on the      *)
(* one-row frame of a request's fields.  The numeric columns go into the   *)
(* frame as they are: [raw |-> v] is the value v itself, not its log.      *)
(***************************************************************************)
utils_preprocess_input(fuel_type, engine_size, cylinders, enc, sc) ==
    IF enc = None
    THEN Raise("AttributeError", "'NoneType' object has no attribute 'transform'")
    ELSE LET cat == encoder_transform(enc, fuel_type)
         IN  IF ~cat.ok THEN cat
             ELSE LET combined ==
                          << [name |-> <<"engine_size">>, value |-> [raw |-> engine_size]],
                             [name |-> <<"cylinders">>, value |-> [raw |-> cylinders]] >>
                          \o [i \in 1..Len(cat.value) |->
                                 [name |-> get_feature_names_out(enc)[i], value |-> cat.value[i]]]
                  IN  IF sc = None
                      THEN Raise("AttributeError", "'NoneType' object has no attribute 'transform'")
                      ELSE scaler_transform(sc, combined)

(***************************************************************************)
(* interpret_emissions: (interpretation, category, color) of a rounded CO2 *)
(* value, in 0.01 g/km.  The leading emoji of predict_router.py's texts is *)
(* written as a word in brackets.                                          *)
(***************************************************************************)
interpret_emissions_predict_router(co2_value) ==
    IF co2_value < 12000 THEN
        [interpretation |-> "(star) Excellent! This vehicle has very low emissions and is highly environmentally friendly. You'll save money on fuel and contribute less to climate change.",
         category |-> "Excellent", color |-> "#10b981"]
    ELSE IF co2_value < 16000 THEN
        [interpretation |-> "(check) Good! This vehicle has moderate emissions and is reasonably eco-friendly. A solid choice for balancing performance and environmental impact.",
         category |-> "Good", color |-> "#22c55e"]
    ELSE IF co2_value < 20000 THEN
        [interpretation |-> "(warning) Average. This vehicle has typical emissions for its class. Consider more fuel-efficient options if environmental impact is a priority.",
         category |-> "Average", color |-> "#f59e0b"]
    ELSE IF co2_value < 25000 THEN
        [interpretation |-> "(red circle) High. This vehicle produces above-average emissions. Expect higher fuel costs and greater environmental impact.",
         category |-> "High", color |-> "#ef4444"]
    ELSE
        [interpretation |-> "(siren) Very High. This vehicle produces significant emissions. Fuel costs will be substantial and environmental impact is considerable.",
         category |-> "Very High", color |-> "#dc2626"]

\* mutant: the later revision with its first comparison written <= 120
interpret_emissions_prediction_router_le(co2_value) ==
    IF co2_value <= 12000 THEN
        [interpretation |-> "Excellent! This vehicle has very low emissions and is highly environmentally friendly. You'll save money on fuel and contribute less to climate change.",
         category |-> "Excellent", color |-> "#09422f"]
    ELSE IF co2_value < 16000 THEN
        [interpretation |-> "Good! This vehicle has moderate emissions and is reasonably eco-friendly. A solid choice for balancing performance and environmental impact.",
         category |-> "Good", color |-> "#22c55e"]
    ELSE IF co2_value < 20000 THEN
        [interpretation |-> "Average. This vehicle has typical emissions for its class. Consider more fuel-efficient options if environmental impact is a priority.",
         category |-> "Average", color |-> "#f59e0b"]
    ELSE IF co2_value < 25000 THEN
        [interpretation |-> "High. This vehicle produces above-average emissions. Expect higher fuel costs and greater environmental impact.",
         category |-> "High", color |-> "#f74f4f"]
    ELSE
        [interpretation |-> "Very High. This vehicle produces significant emissions. Fuel costs will be substantial and environmental impact is considerable.",
         category |-> "Very High", color |-> "#dc2626"]

interpret_emissions_prediction_router(co2_value) ==
    IF co2_value < 12000 THEN
        [interpretation |-> "Excellent! This vehicle has very low emissions and is highly environmentally friendly. You'll save money on fuel and contribute less to climate change.",
         category |-> "Excellent", color |-> "#09422f"]
    ELSE IF co2_value < 16000 THEN
        [interpretation |-> "Good! This vehicle has moderate emissions and is reasonably eco-friendly. A solid choice for balancing performance and environmental impact.",
         category |-> "Good", color |-> "#22c55e"]
    ELSE IF co2_value < 20000 THEN
        [interpretation |-> "Average. This vehicle has typical emissions for its class. Consider more fuel-efficient options if environmental impact is a priority.",
         category |-> "Average", color |-> "#f59e0b"]
    ELSE IF co2_value < 25000 THEN
        [interpretation |-> "High. This vehicle produces above-average emissions. Expect higher fuel costs and greater environmental impact.",
         category |-> "High", color |-> "#f74f4f"]
    ELSE
        [interpretation |-> "Very High. This vehicle produces significant emissions. Fuel costs will be substantial and environmental impact is considerable.",
         category |-> "Very High", color |-> "#dc2626"]

\* mutant: the first comparison written <= 120
interpret_emissions_le(co2_value) ==
    IF co2_value = 12000
    THEN interpret_emissions_predict_router(11999)
    ELSE IF router = "predict_router"
         THEN interpret_emissions_predict_router(co2_value)
         ELSE interpret_emissions_prediction_router(co2_value)

\* mutant: the colour is shaded by the value inside the High band
interpret_emissions_shaded(co2_value) ==
    IF co2_value >= 22500 /\ co2_value < 25000
    THEN [interpretation |-> "High. This vehicle produces above-average emissions. Expect higher fuel costs and greater environmental impact.",
          category |-> "High", color |-> "#e03a3a"]
    ELSE IF router = "predict_router"
         THEN interpret_emissions_predict_router(co2_value)
         ELSE interpret_emissions_prediction_router(co2_value)

\* mutant: the results of the third and the fourth branch exchanged
interpret_emissions_exchanged(co2_value) ==
    LET v == IF co2_value >= 16000 /\ co2_value < 20000 THEN 22000
             ELSE IF co2_value >= 20000 /\ co2_value < 25000 THEN 18000
             ELSE co2_value
    IN  IF router = "predict_router"
        THEN interpret_emissions_predict_router(v)
        ELSE interpret_emissions_prediction_router(v)

interpret_emissions(co2_value) ==
    IF router = "predict_router"
    THEN interpret_emissions_predict_router(co2_value)
    ELSE interpret_emissions_prediction_router(co2_value)

\* round(float(actual_co2), 2): from 0.001 g/km to the nearest 0.01 g/km.  A
\* decimal tie (last digit 5) has no exact double: the double that stands for
\* it lies on either side, so both neighbours are possible results.
round2(actual_co2) ==
    LET q == actual_co2 \div 10
        d == actual_co2 % 10
    IN  IF d < 5 THEN {q} ELSE IF d > 5 THEN {q + 1} ELSE {q, q + 1}

\* PredictionOutput(...): unit keeps its default
PredictionOutput(co2_value, interp) ==
    [predicted_co2_emissions |-> co2_value,
     unit |-> "g/km",
     interpretation |-> interp.interpretation,
     category |-> interp.category,
     color |-> interp.color]

(***************************************************************************)
(* HTTP answers.  detail is the list of the parts of the detail text (or   *)
(* the list of field errors of a request the schema refuses).              *)
(***************************************************************************)
Response(status, detail, body) == [status |-> status, detail |-> detail, body |-> body]

\* FastAPI's answer to a body the schema refuses
RequestValidationError(errors) == Response(422, errors, None)

\* the 503 of the handler's first check
NotInitialized ==
    Response(503, <<"Prediction service not fully initialized. Missing model, encoder, or scaler.">>, None)

\* mutant: the second except clause is missing; the server's own 500 answers
HandleException_no_catch_all(e) ==
    IF e.exc = "ValueError"
    THEN Response(422, <<e.msg>>, None)
    ELSE Response(500, <<"Internal Server Error">>, None)

\* the two except clauses of predict_emissions
HandleException(e) ==
    IF e.exc = "ValueError"
    THEN Response(422, <<e.msg>>, None)
    ELSE Response(400, <<"Prediction error: ", e.msg>>, None)

(***************************************************************************)
(* Inputs drawn by the specifications.                                     *)
(***************************************************************************)
FuelSamples == {"X", "Z", "E", "D", "N", "Q", "x"}
EngineSamples == {89, 90, 200, 840, 841}
CylinderSamples == {2, 3, 4, 16, 17}
\* regressor outputs, as exp(output) in 0.001 g/km
OutputSamples == {4, 119995, 120000, 139860, 160000, 200000, 249999, 250000}

FuelRange == {"X", "Z", "E", "D", "N", "Q", "x"}
EngineRange == 0..MaxEngine
CylinderRange == 0..MaxCylinders
OutputRange == {10 * c : c \in 0..MaxCo2}

(***************************************************************************)
(* chatbot_router.py, AnalyticsTracker: the counters kept in               *)
(* chatbot_analytics.json, shared by the worker processes of the server.   *)
(***************************************************************************)
Workers == {1, 2}

\* an empty JSON object
EmptyMap == [k \in {} |-> 0]

\* initial_data of initialize_analytics (last_updated, a time stamp, is left
\* out)
initial_data ==
    [kind |-> "json", total_requests |-> 0, ai_responses |-> 0, fallback_responses |-> 0,
     common_questions |-> EmptyMap, fallback_triggers |-> EmptyMap,
     response_times |-> <<>>, user_categories |-> EmptyMap,
     daily_activity |-> EmptyMap, conversation_lengths |-> <<>>]

\* entries track_request keeps of response_times and conversation_lengths
MaxKept == 1000

\* d[key] = d.get(key, 0) + 1
Increment(d, key) ==
    [k \in DOMAIN d \cup {key} |->
        IF k = key THEN (IF key \in DOMAIN d THEN d[key] ELSE 0) + 1 ELSE d[k]]

\* mutant: the slice written [:n], which keeps the oldest entries
KeepFirst(list, n) ==
    IF Len(list) > n THEN SubSeq(list, 1, n) ELSE list

\* list[-n:] where the list is longer than n
KeepLast(list, n) ==
    IF Len(list) > n THEN SubSeq(list, Len(list) - n + 1, Len(list)) ELSE list

\* mutant: only total_requests is counted
track_request_total_only(analytics, user_message, response_type, response_time, prediction_data) ==
    [analytics EXCEPT !.total_requests = @ + 1]

\* the body of track_request between load_analytics and save_analytics.  A
\* message is [lower, len]: its lower-cased, stripped text and its length.
track_request(analytics, user_message, response_type, response_time, prediction_data) ==
    [analytics EXCEPT
        !.total_requests = @ + 1,
        !.ai_responses = IF response_type = "ai" THEN @ + 1 ELSE @,
        !.fallback_responses = IF response_type = "ai" THEN @ ELSE @ + 1,
        !.common_questions =
            IF user_message.len > 3 THEN Increment(@, user_message.lower) ELSE @,
        !.response_times =
            IF response_time # 0 THEN KeepLast(Append(@, response_time), MaxKept) ELSE @,
        !.user_categories =
            IF prediction_data # None THEN Increment(@, prediction_data.category) ELSE @,
        !.daily_activity = Increment(@, "today"),
        !.conversation_lengths = KeepLast(Append(@, user_message.len), MaxKept)]

\* initialize_analytics: writes initial_data only when the file does not
\* exist; an existing file is left as it is
initialize_analytics(file) ==
    IF file.kind = "missing" THEN initial_data ELSE file

\* get_analytics_summary, as far as the counters and the triggers go (in the
\* code the triggers are the five most frequent, as a sorted list of pairs)
get_analytics_summary(analytics) ==
    [endpoint |-> "/analytics",
     total_requests |-> analytics.total_requests,
     ai_responses |-> analytics.ai_responses,
     fallback_responses |-> analytics.fallback_responses,
     user_categories |-> analytics.user_categories,
     fallback_triggers |-> analytics.fallback_triggers]

\* the file between open(..., 'w') and the close that flushes json.dump
Empty == [kind |-> "empty"]

\* the file after two writers that had it open at once: not valid JSON
Garbled == [kind |-> "garbled"]

\* a worker outside track_request
Resting ==
    [pc |-> "idle", analytics |-> None, calls |-> 0, args |-> None,
     request |-> None, response |-> None]

(***************************************************************************)
(* chatbot_router.py: the chat endpoint.  What the provider does with one  *)
(* call is an outcome: no key configured, an HTTP status, a timeout,       *)
(* another exception, a JSON body that is neither list nor object, or a    *)
(* generated text of some length (after strip).                            *)
(***************************************************************************)
AiOutcomes ==
    { [kind |-> "no_key"], [kind |-> "status", status |-> 503], [kind |-> "timeout"],
      [kind |-> "error"], [kind |-> "shape"] }
    \cup { [kind |-> "text", len |-> n] : n \in {0, 19, 20, 400} }

\* mutant: the check of the length is missing
try_ai_response_any_length(outcome) ==
    IF outcome.kind = "text" /\ outcome.len # 0
    THEN [generated_text |-> "generated", len |-> outcome.len]
    ELSE None

\* try_ai_response: the generated text, or None
try_ai_response(outcome) ==
    IF outcome.kind = "no_key" THEN None
    ELSE IF outcome.kind \in {"timeout", "error"} THEN None
    ELSE IF outcome.kind = "status" THEN None
    ELSE IF outcome.kind = "shape" THEN None
    ELSE IF outcome.len = 0 THEN None
    ELSE IF outcome.len < 20 THEN None
    ELSE [generated_text |-> "generated", len |-> outcome.len]

\* get_fallback_response: the text of the first topic whose words the
\* message holds (three of the topic branches, and the default).  The local
\* fallback_trigger names the branch; it is neither returned nor stored.
get_fallback_response(user_message, prediction_data) ==
    IF prediction_data # None
       /\ user_message.words \cap {"result", "prediction", "mean", "explain", "understand"} # {}
    THEN [fallback |-> "prediction_explanation"]
    ELSE IF prediction_data # None
            /\ user_message.words \cap {"improve", "reduce", "lower", "better", "decrease"} # {}
    THEN [fallback |-> "improvement_tips"]
    ELSE IF user_message.words \cap {"electric", "ev", "hybrid", "plug", "tesla", "battery"} # {}
    THEN [fallback |-> "electric_vehicles"]
    ELSE [fallback |-> "default_greeting"]

ChatResponse(response, response_type) ==
    [kind |-> "ChatResponse", response |-> response,
     suggested_questions |-> "suggested", response_type |-> response_type]

\* chat, up to the call of track_request: the type and the answer
chat(user_message, prediction_data, outcome) ==
    LET ai_response == try_ai_response(outcome)
    IN  IF ai_response # None
        THEN ChatResponse(ai_response, "ai")
        ELSE ChatResponse(get_fallback_response(user_message, prediction_data), "fallback")

ChatMessages ==
    { [lower |-> "hi", len |-> 2, words |-> {}],
      [lower |-> "explain my result", len |-> 17, words |-> {"explain", "result"}] }

ChatPredictions == {None, [category |-> "Good", predicted_co2_emissions |-> 13986]}

(***************************************************************************)
(* Chatbot_router.py: its own chat endpoint.  The assignment of            *)
(* HUGGINGFACE_API_KEY is commented out in the file, so the name is        *)
(* undefined unless something else defines it; a configured key and the    *)
(* placeholder are the values the commented line would give.               *)
(***************************************************************************)
KeyStates == {"undefined", "placeholder", "configured"}

UpstreamOutcomes ==
    { [kind |-> "status", status |-> st] : st \in 100..599 }
    \cup { [kind |-> "timeout"], [kind |-> "error"] }

\* the endpoint's answer for a state of the key and a behaviour of the
\* upstream call.  The HTTPException raised for a non-200 status is raised
\* inside the try block and caught by its 'except Exception'.
Chatbot_router_chat(key, upstream) ==
    IF key = "undefined"
    THEN Response(500, <<"Internal Server Error">>, None)
    ELSE IF key = "placeholder"
    THEN Response(500, <<"Hugging Face API key not configured">>, None)
    ELSE IF upstream.kind = "timeout"
    THEN Response(504, <<"Request timed out. Please try again.">>, None)
    ELSE IF upstream.kind = "error"
    THEN Response(500, <<"Chat error: ", "upstream call failed">>, None)
    ELSE IF upstream.status # 200
    THEN Response(500, <<"Chat error: ", "Hugging Face API error">>, None)
    ELSE Response(200, <<>>, [response |-> "generated"])

(***************************************************************************)
(* State.                                                                  *)
(***************************************************************************)
Idle ==
    [state |-> "Idle", fuel_type |-> "", engine_size |-> 0, cylinders |-> 0,
     calls |-> {}, features |-> <<>>, log_prediction |-> None, co2_value |-> 0,
     interpretation |-> None, response |-> None]

Terminal == {"Rejected", "Failed", "Returned"}

Init ==
    /\ router \in Routers
    /\ boot = "load_model"
    /\ model = None
    /\ encoder = None
    /\ scaler = None
    /\ req = [r \in Requests |-> Idle]
    /\ served = 0
    /\ aux = None
    /\ analytics_file = initial_data
    /\ track = [p \in Workers |-> Resting]

\* the state in which a consistent artifact triple has been loaded
InitServing ==
    /\ router \in Routers
    /\ boot = "serving"
    /\ model = TrainedModel
    /\ encoder = TrainedEncoder
    /\ scaler = TrainedScaler
    /\ req = [r \in Requests |-> Idle]
    /\ served = 0
    /\ aux = None
    /\ analytics_file = initial_data
    /\ track = [p \in Workers |-> Resting]

(***************************************************************************)
(* Module import: the three loading blocks, in order.  A block leaves its  *)
(* global None when the file is missing or joblib.load raises.             *)
(***************************************************************************)
LoadModel ==
    /\ boot = "load_model"
    /\ model' \in Models \cup {None}
    /\ boot' = "load_encoder"
    /\ UNCHANGED <<router, encoder, scaler, req, served, aux, analytics_file, track>>

LoadEncoder ==
    /\ boot = "load_encoder"
    /\ encoder' \in Encoders \cup {None}
    /\ boot' = "load_scaler"
    /\ UNCHANGED <<router, model, scaler, req, served, aux, analytics_file, track>>

LoadScaler ==
    /\ boot = "load_scaler"
    /\ scaler' \in Scalers \cup {None}
    /\ boot' = "serving"
    /\ UNCHANGED <<router, model, encoder, req, served, aux, analytics_file, track>>

(***************************************************************************)
(* POST /predict.                                                          *)
(***************************************************************************)
\* a request body arrives
Receive(r, Fuel, Engine, Cyl) ==
    /\ boot = "serving"
    /\ req[r].state = "Idle"
    /\ served < MaxRequests
    /\ \E f \in Fuel, e \in Engine, c \in Cyl :
          req' = [req EXCEPT ![r] = [Idle EXCEPT !.state = "Received",
                                                 !.fuel_type = f,
                                                 !.engine_size = e,
                                                 !.cylinders = c]]
    /\ UNCHANGED <<router, boot, model, encoder, scaler, served, aux, analytics_file, track>>

\* mutant: the handler takes the raw body, no schema in front of it
Validate_skipped(r) ==
    /\ req[r].state = "Received"
    /\ req' = [req EXCEPT ![r] = [@ EXCEPT !.state = "Validated"]]
    /\ UNCHANGED <<router, boot, model, encoder, scaler, served, aux, analytics_file, track>>

\* the body is parsed into PredictionInput before the handler is entered
Validate(r) ==
    /\ req[r].state = "Received"
    /\ LET errors == PredictionInput(req[r].fuel_type, req[r].engine_size, req[r].cylinders)
       IN  req' = [req EXCEPT ![r] =
                      IF errors # <<>>
                      THEN [@ EXCEPT !.state = "Rejected",
                                     !.response = RequestValidationError(errors)]
                      ELSE [@ EXCEPT !.state = "Validated"]]
    /\ UNCHANGED <<router, boot, model, encoder, scaler, served, aux, analytics_file, track>>

\* mutant: the first check looks at the model alone
Preprocess_checks_model_only(r) ==
    /\ req[r].state = "Validated"
    /\ IF model = None
       THEN req' = [req EXCEPT ![r] = [@ EXCEPT !.state = "Failed",
                                                !.response = NotInitialized]]
       ELSE LET out == preprocess_input(req[r].fuel_type, req[r].engine_size, req[r].cylinders)
            IN  req' = [req EXCEPT ![r] =
                           IF out.ok
                           THEN [@ EXCEPT !.state = "Transformed",
                                          !.calls = {"preprocess_input"} \cup out.calls,
                                          !.features = out.value]
                           ELSE [@ EXCEPT !.state = "Failed",
                                          !.calls = {"preprocess_input"} \cup out.calls,
                                          !.response = HandleException(out)]]
    /\ UNCHANGED <<router, boot, model, encoder, scaler, served, aux, analytics_file, track>>

\* mutant: the encoder is refitted on the request (fit_transform for transform)
Preprocess_refits_encoder(r) ==
    /\ req[r].state = "Validated"
    /\ IF model = None \/ encoder = None \/ scaler = None
       THEN req' = [req EXCEPT ![r] = [@ EXCEPT !.state = "Failed",
                                                !.response = NotInitialized]]
       ELSE LET out == preprocess_input(req[r].fuel_type, req[r].engine_size, req[r].cylinders)
            IN  req' = [req EXCEPT ![r] =
                           IF out.ok
                           THEN [@ EXCEPT !.state = "Transformed",
                                          !.calls = {"preprocess_input"} \cup out.calls,
                                          !.features = out.value]
                           ELSE [@ EXCEPT !.state = "Failed",
                                          !.calls = {"preprocess_input"} \cup out.calls,
                                          !.response = HandleException(out)]]
    /\ encoder' = IF model = None \/ encoder = None \/ scaler = None
                  THEN encoder
                  ELSE [encoder EXCEPT !.categories = <<req[r].fuel_type>>]
    /\ UNCHANGED <<router, boot, model, scaler, served, aux, analytics_file, track>>


\* predict_emissions, from its entry to the return of preprocess_input
Preprocess(r) ==
    /\ req[r].state = "Validated"
    /\ IF model = None \/ encoder = None \/ scaler = None
       THEN req' = [req EXCEPT ![r] = [@ EXCEPT !.state = "Failed",
                                                !.response = NotInitialized]]
       ELSE LET out == preprocess_input(req[r].fuel_type, req[r].engine_size, req[r].cylinders)
            IN  req' = [req EXCEPT ![r] =
                           IF out.ok
                           THEN [@ EXCEPT !.state = "Transformed",
                                          !.calls = {"preprocess_input"} \cup out.calls,
                                          !.features = out.value]
                           ELSE [@ EXCEPT !.state = "Failed",
                                          !.calls = {"preprocess_input"} \cup out.calls,
                                          !.response = HandleException(out)]]
    /\ UNCHANGED <<router, boot, model, encoder, scaler, served, aux, analytics_file, track>>

\* mutant: the scaled vector is kept in a module global that every request
\* in flight writes, and model.predict reads whichever vector is there
Predict_shared_features(r, Out) ==
    /\ req[r].state = "Transformed"
    /\ \E q \in DOMAIN req :
          /\ req[q].features # <<>>
          /\ \E out \in model_predict(model, req[q].features, Out) :
                req' = [req EXCEPT ![r] =
                           IF out.ok
                           THEN [@ EXCEPT !.state = "Predicted",
                                          !.calls = @ \cup {"model.predict"},
                                          !.log_prediction = out.value]
                           ELSE [@ EXCEPT !.state = "Failed",
                                          !.calls = @ \cup {"model.predict"},
                                          !.response = HandleException(out)]]
    /\ UNCHANGED <<router, boot, model, encoder, scaler, served, aux, analytics_file, track>>

\* log_prediction = model.predict(scaled_features)[0]
Predict(r, Out) ==
    /\ req[r].state = "Transformed"
    /\ \E out \in model_predict(model, req[r].features, Out) :
          req' = [req EXCEPT ![r] =
                     IF out.ok
                     THEN [@ EXCEPT !.state = "Predicted",
                                    !.calls = @ \cup {"model.predict"},
                                    !.log_prediction = out.value]
                     ELSE [@ EXCEPT !.state = "Failed",
                                    !.calls = @ \cup {"model.predict"},
                                    !.response = HandleException(out)]]
    /\ UNCHANGED <<router, boot, model, encoder, scaler, served, aux, analytics_file, track>>

\* mutant: the answer is built in the same step, no Interpreted state
Interpret_and_return(r) ==
    /\ req[r].state = "Predicted"
    /\ \E co2_value \in round2(np_exp(req[r].log_prediction)) :
          req' = [req EXCEPT ![r] = [@ EXCEPT !.state = "Returned",
                                              !.co2_value = co2_value,
                                              !.interpretation = interpret_emissions(co2_value),
                                              !.response = Response(200, <<>>,
                                                  PredictionOutput(co2_value, interpret_emissions(co2_value)))]]
    /\ UNCHANGED <<router, boot, model, encoder, scaler, served, aux, analytics_file, track>>

\* mutant: the category is taken from the value before it is rounded
Interpret_classifies_unrounded(r) ==
    /\ req[r].state = "Predicted"
    /\ \E co2_value \in round2(np_exp(req[r].log_prediction)) :
          req' = [req EXCEPT ![r] = [@ EXCEPT !.state = "Interpreted",
                                              !.co2_value = co2_value,
                                              !.interpretation =
                                                  interpret_emissions(np_exp(req[r].log_prediction) \div 10)]]
    /\ UNCHANGED <<router, boot, model, encoder, scaler, served, aux, analytics_file, track>>

\* exp, round to two decimals, interpret_emissions
Interpret(r) ==
    /\ req[r].state = "Predicted"
    /\ \E co2_value \in round2(np_exp(req[r].log_prediction)) :
          req' = [req EXCEPT ![r] = [@ EXCEPT !.state = "Interpreted",
                                              !.co2_value = co2_value,
                                              !.interpretation = interpret_emissions(co2_value)]]
    /\ UNCHANGED <<router, boot, model, encoder, scaler, served, aux, analytics_file, track>>

\* return PredictionOutput(...)
Return(r) ==
    /\ req[r].state = "Interpreted"
    /\ req' = [req EXCEPT ![r] = [@ EXCEPT !.state = "Returned",
                                           !.response = Response(200, <<>>,
                                               PredictionOutput(req[r].co2_value, req[r].interpretation))]]
    /\ UNCHANGED <<router, boot, model, encoder, scaler, served, aux, analytics_file, track>>

\* the answer has been sent; the slot takes the next request
Release(r) ==
    /\ req[r].state \in Terminal
    /\ req' = [req EXCEPT ![r] = Idle]
    /\ served' = served + 1
    /\ UNCHANGED <<router, boot, model, encoder, scaler, aux, analytics_file, track>>

(***************************************************************************)
(* The read-only endpoints.                                                *)
(***************************************************************************)
\* truth value of a module global: None is false, an estimator is true
Truthy(a) == a # None

\* mutant: the status looks at the model alone
health_check_model_only ==
    [endpoint |-> "/health",
     status |-> IF Truthy(model) THEN "healthy" ELSE "unhealthy",
     model_loaded |-> model # None,
     encoder_loaded |-> encoder # None,
     scaler_loaded |-> scaler # None]

health_check ==
    [endpoint |-> "/health",
     status |-> IF Truthy(model) /\ Truthy(encoder) /\ Truthy(scaler)
                THEN "healthy" ELSE "unhealthy",
     model_loaded |-> model # None,
     encoder_loaded |-> encoder # None,
     scaler_loaded |-> scaler # None]

get_fuel_types ==
    [endpoint |-> "/fuel-types",
     fuel_types |-> <<"X", "Z", "E", "D", "N">>,
     descriptions |-> [X |-> "Regular gasoline", Z |-> "Premium gasoline",
                       E |-> "Ethanol (E85)", D |-> "Diesel", N |-> "Natural gas"]]

get_model_info ==
    [endpoint |-> "/model-info",
     encoded_features |-> << <<"engine_size(l) (log)">>, <<"cylinders (log)">> >>
                          \o (IF Truthy(encoder) THEN get_feature_names_out(encoder) ELSE <<>>),
     drop_parameter |-> IF Truthy(encoder) THEN encoder.drop ELSE "unknown"]

Health ==
    /\ boot = "serving"
    /\ aux' = health_check
    /\ UNCHANGED <<router, boot, model, encoder, scaler, req, served, analytics_file, track>>

FuelTypes ==
    /\ boot = "serving"
    /\ aux' = get_fuel_types
    /\ UNCHANGED <<router, boot, model, encoder, scaler, req, served, analytics_file, track>>

ModelInfo ==
    /\ boot = "serving"
    /\ aux' = get_model_info
    /\ UNCHANGED <<router, boot, model, encoder, scaler, req, served, analytics_file, track>>

\* utils.preprocess.preprocess_input called with the fields of a request and
\* the loaded encoder and scaler
UtilsPreprocess(r) ==
    /\ boot = "serving"
    /\ req[r].state \in {"Validated", "Transformed"}
    /\ aux' = [endpoint |-> "utils.preprocess.preprocess_input",
               fuel_type |-> req[r].fuel_type,
               engine_size |-> req[r].engine_size,
               cylinders |-> req[r].cylinders,
               result |-> utils_preprocess_input(req[r].fuel_type, req[r].engine_size,
                                                 req[r].cylinders, encoder, scaler)]
    /\ UNCHANGED <<router, boot, model, encoder, scaler, req, served, analytics_file, track>>

\* preprocess_input called on its own, outside the handler's checks
CallPreprocess(Fuel, Engine, Cyl) ==
    /\ boot = "serving"
    /\ \E f \in Fuel, e \in Engine, c \in Cyl :
          aux' = [endpoint |-> "preprocess_input",
                  fuel_type |-> f, engine_size |-> e, cylinders |-> c,
                  result |-> preprocess_input(f, e, c)]
    /\ UNCHANGED <<router, boot, model, encoder, scaler, req, served, analytics_file, track>>

(***************************************************************************)
(* POST /chat, as far as the analytics file is concerned.  track_request   *)
(* takes no lock; its steps are the system calls other processes can see.  *)
(***************************************************************************)
\* analytics = self.load_analytics() and the increments on the loaded copy;
\* json.load of a file that is not valid JSON raises, the except clause of
\* track_request prints the error and the call ends without saving
TrackLoad(p, user_message, response_type, response_time, prediction_data) ==
    /\ track[p].pc = "idle"
    /\ track[p].calls < MaxTracks
    /\ LET args == [user_message |-> user_message, response_type |-> response_type,
                    response_time |-> response_time, prediction_data |-> prediction_data]
       IN  IF analytics_file.kind # "json"
           THEN track' = [track EXCEPT ![p] =
                    [@ EXCEPT !.calls = @ + 1, !.args = args,
                              !.request = None, !.response = None]]
           ELSE track' = [track EXCEPT ![p] =
                    [@ EXCEPT !.pc = "loaded", !.args = args,
                              !.request = None, !.response = None,
                              !.analytics = track_request(analytics_file, user_message,
                                                response_type, response_time, prediction_data)]]
    /\ UNCHANGED <<router, boot, model, encoder, scaler, req, served, aux, analytics_file>>

\* save_analytics: open(self.analytics_file, 'w') truncates the file
SaveOpen(p) ==
    /\ track[p].pc = "loaded"
    /\ analytics_file' = Empty
    /\ track' = [track EXCEPT ![p] = [@ EXCEPT !.pc = "writing"]]
    /\ UNCHANGED <<router, boot, model, encoder, scaler, req, served, aux>>

\* save_analytics: json.dump is flushed when the with block closes the file.
\* Bytes another writer has put there since the truncation stay behind
\* whatever this writer does not overwrite.
SaveClose(p) ==
    /\ track[p].pc = "writing"
    /\ analytics_file' \in
           IF analytics_file = Empty
           THEN {track[p].analytics}
           ELSE {track[p].analytics, Garbled}
    /\ track' = [track EXCEPT ![p] =
                    [@ EXCEPT !.pc = "idle", !.analytics = None, !.calls = @ + 1,
                              !.response = IF track[p].request = None THEN None
                                           ELSE track[p].request.reply]]
    /\ UNCHANGED <<router, boot, model, encoder, scaler, req, served, aux>>

\* POST /chat handled by worker p: the provider is asked, the answer and its
\* type are chosen, and track_request loads the analytics file.  A load
\* that raises is printed by track_request and the answer is returned; else
\* the answer is returned when save_analytics has closed the file.
Chat(p, Messages, Predictions, Outcomes) ==
    /\ track[p].pc = "idle"
    /\ track[p].calls < MaxTracks
    /\ \E user_message \in Messages, prediction_data \in Predictions, outcome \in Outcomes :
          LET reply == chat(user_message, prediction_data, outcome)
              request == [message |-> user_message, prediction_data |-> prediction_data,
                          outcome |-> outcome, reply |-> reply,
                          tracked |-> analytics_file.kind = "json"]
              args == [user_message |-> user_message, response_type |-> reply.response_type,
                       response_time |-> 1, prediction_data |-> prediction_data]
          IN  IF analytics_file.kind # "json"
              THEN track' = [track EXCEPT ![p] =
                       [@ EXCEPT !.calls = @ + 1, !.args = args,
                                 !.request = request, !.response = reply]]
              ELSE track' = [track EXCEPT ![p] =
                       [@ EXCEPT !.pc = "loaded", !.args = args,
                                 !.request = request, !.response = None,
                                 !.analytics = track_request(analytics_file, user_message,
                                                   reply.response_type, 1, prediction_data)]]
    /\ UNCHANGED <<router, boot, model, encoder, scaler, req, served, aux, analytics_file>>

\* POST /chat of Chatbot_router.py
ChatbotChat ==
    /\ \E key \in KeyStates, upstream \in UpstreamOutcomes :
          aux' = [endpoint |-> "Chatbot_router/chat", key |-> key, upstream |-> upstream,
                  answer |-> Chatbot_router_chat(key, upstream)]
    /\ UNCHANGED <<router, boot, model, encoder, scaler, req, served, analytics_file, track>>

\* GET /analytics
GetAnalytics ==
    /\ aux' = IF analytics_file.kind = "json"
              THEN get_analytics_summary(analytics_file)
              ELSE [endpoint |-> "/analytics", status |-> 500,
                    detail |-> "Failed to retrieve analytics"]
    /\ UNCHANGED <<router, boot, model, encoder, scaler, req, served, analytics_file, track>>

\* GET /analytics/reset
ResetAnalytics ==
    /\ analytics_file' = initialize_analytics(analytics_file)
    /\ aux' = [endpoint |-> "/analytics/reset",
               message |-> "Analytics data reset successfully"]
    /\ UNCHANGED <<router, boot, model, encoder, scaler, req, served, track>>

(***************************************************************************)
(* Specifications.                                                         *)
(***************************************************************************)
Load == LoadModel \/ LoadEncoder \/ LoadScaler

Next ==
    \/ Load
    \/ \E r \in Requests :
          \/ Receive(r, FuelSamples, EngineSamples, CylinderSamples)
          \/ Validate(r)
          \/ Preprocess(r)
          \/ Predict(r, OutputSamples)
          \/ Interpret(r)
          \/ Return(r)
          \/ Release(r)
    \/ Health
    \/ FuelTypes
    \/ ModelInfo

Spec == Init /\ [][Next]_vars

\* a handler that has been entered runs to its end
RequestSteps(r) ==
    \/ Validate(r)
    \/ Preprocess(r)
    \/ Predict(r, OutputSamples)
    \/ Interpret(r)
    \/ Return(r)

FairSpec == Spec /\ \A r \in Requests : WF_vars(RequestSteps(r))

\* request validation over the whole range of each field
NextValidation ==
    \E r \in Requests :
        \/ Receive(r, FuelRange, EngineRange, CylinderRange)
        \/ Validate(r)
        \/ Release(r)

SpecValidation == InitServing /\ [][NextValidation]_vars

\* one valid request, the regressor's output over the whole CO2 range
NextInterpret ==
    \E r \in Requests :
        \/ Receive(r, {"X"}, {200}, {4})
        \/ Validate(r)
        \/ Preprocess(r)
        \/ Predict(r, OutputRange)
        \/ Interpret(r)
        \/ Return(r)
        \/ Release(r)

SpecInterpret == InitServing /\ [][NextInterpret]_vars

(***************************************************************************)
(* Two requests in flight at once, against regressors whose trees are      *)
(* known.  Results are drawn off the rounding ties.                        *)
(***************************************************************************)
ConcurrentRequests == {1, 2}
ConcurrentFuel == {"X", "D"}
ConcurrentEngine == {89, 200}
ConcurrentCylinders == {4}

\* the vector the trained encoder and scaler make of a valid request
TrainedFeatures(fuel_type, engine_size, cylinders) ==
    scaler_transform(TrainedScaler,
        Assemble(np_log(engine_size * 10), np_log(cylinders * 1000), TrainedEncoder,
                 encoder_transform(TrainedEncoder, fuel_type).value)).value

ConcurrentFeatures ==
    { TrainedFeatures(f, 200, 4) : f \in ConcurrentFuel }

ConcurrentResults ==
    { Ok(np_log(119994)), Ok(np_log(139860)), Raise("RuntimeError", "regressor call failed") }

ConcurrentModels ==
    { [kind |-> "XGBRegressor", n_features_in |-> 7, trees |-> t] :
          t \in [ConcurrentFeatures -> ConcurrentResults] }

InitConcurrent ==
    /\ router \in Routers
    /\ boot = "serving"
    /\ model \in ConcurrentModels \cup {None}
    /\ encoder = TrainedEncoder
    /\ scaler = TrainedScaler
    /\ req = [r \in ConcurrentRequests |-> Idle]
    /\ served = 0
    /\ aux = None
    /\ analytics_file = initial_data
    /\ track = [p \in Workers |-> Resting]

NextConcurrent ==
    \E r \in ConcurrentRequests :
        \/ Receive(r, ConcurrentFuel, ConcurrentEngine, ConcurrentCylinders)
        \/ Validate(r)
        \/ Preprocess(r)
        \/ Predict(r, {})
        \/ Interpret(r)
        \/ Return(r)
        \/ Release(r)

SpecConcurrent == InitConcurrent /\ [][NextConcurrent]_vars

(***************************************************************************)
(* Two valid requests in flight at once, the regressor's outputs drawn     *)
(* from both ends of every band.                                           *)
(***************************************************************************)
PairOutputs ==
    {100000, 119990, 120000, 159990, 160000, 199990, 200000, 249990, 250000, 260000}

InitPair ==
    /\ router \in Routers
    /\ boot = "serving"
    /\ model = TrainedModel
    /\ encoder = TrainedEncoder
    /\ scaler = TrainedScaler
    /\ req = [r \in ConcurrentRequests |-> Idle]
    /\ served = 0
    /\ aux = None
    /\ analytics_file = initial_data
    /\ track = [p \in Workers |-> Resting]

NextPair ==
    \E r \in ConcurrentRequests :
        \/ Receive(r, {"X"}, {200}, {4})
        \/ Validate(r)
        \/ Preprocess(r)
        \/ Predict(r, PairOutputs)
        \/ Interpret(r)
        \/ Return(r)
        \/ Release(r)

SpecPair == InitPair /\ [][NextPair]_vars

(***************************************************************************)
(* The worker processes handling /chat requests, the prediction side at    *)
(* rest.                                                                   *)
(***************************************************************************)
NextAnalytics ==
    \E p \in Workers :
        \/ \E response_type \in {"ai", "fallback"} :
               TrackLoad(p, [lower |-> "hi", len |-> 2], response_type, 0, None)
        \/ SaveOpen(p)
        \/ SaveClose(p)

SpecAnalytics == InitServing /\ [][NextAnalytics]_vars

(***************************************************************************)
(* The two preprocessing implementations on the same request.              *)
(***************************************************************************)
NextPreprocess ==
    \E r \in Requests :
        \/ Receive(r, FuelSamples, EngineSamples, CylinderSamples)
        \/ Validate(r)
        \/ Preprocess(r)
        \/ UtilsPreprocess(r)
        \/ Release(r)

SpecPreprocess == InitServing /\ [][NextPreprocess]_vars

(***************************************************************************)
(* Valid and invalid numeric fields over their whole range, through the    *)
(* forward transform and the inverse of the handler.                       *)
(***************************************************************************)
NextRoundTrip ==
    \E r \in Requests :
        \/ Receive(r, {"X"}, EngineRange, CylinderRange)
        \/ Validate(r)
        \/ Preprocess(r)
        \/ Predict(r, {139860})
        \/ Interpret(r)
        \/ Return(r)
        \/ Release(r)

SpecRoundTrip == InitServing /\ [][NextRoundTrip]_vars

(***************************************************************************)
(* The transformer alone, after any outcome of the loading blocks.         *)
(***************************************************************************)
NextTransformer ==
    \/ Load
    \/ CallPreprocess(FuelSamples, EngineSamples, CylinderSamples)

SpecTransformer == Init /\ [][NextTransformer]_vars

\* the same workers, and the reset endpoint
NextReset ==
    \/ NextAnalytics
    \/ ResetAnalytics

SpecReset == InitServing /\ [][NextReset]_vars

\* the workers handling /chat requests, every behaviour of the provider
NextChat ==
    \E p \in Workers :
        \/ Chat(p, {[lower |-> "explain my result", len |-> 17,
                      words |-> {"explain", "result"}]}, {None}, AiOutcomes)
        \/ SaveOpen(p)
        \/ SaveClose(p)

SpecChat == InitServing /\ [][NextChat]_vars

(***************************************************************************)
(* track_request called again and again by one process, from the initial   *)
(* data or from a file that is not valid JSON.                             *)
(***************************************************************************)
InitTracker ==
    /\ router = "predict_router"
    /\ boot = "serving"
    /\ model = TrainedModel
    /\ encoder = TrainedEncoder
    /\ scaler = TrainedScaler
    /\ req = [r \in Requests |-> Idle]
    /\ served = 0
    /\ aux = None
    /\ analytics_file \in {initial_data, Garbled}
    /\ track = [p \in Workers |-> Resting]

NextTracker ==
    \/ \E user_message \in ChatMessages, response_type \in {"ai", "fallback"},
          response_time \in {0, 1}, prediction_data \in ChatPredictions :
          TrackLoad(1, user_message, response_type, response_time, prediction_data)
    \/ SaveOpen(1)
    \/ SaveClose(1)

SpecTracker == InitTracker /\ [][NextTracker]_vars

(***************************************************************************)
(* track_request on a file that already holds n entries in each list: the  *)
(* i-th response time is i, the messages were short ones.                  *)
(***************************************************************************)
StoredAfter(n) ==
    [initial_data EXCEPT
        !.total_requests = n,
        !.fallback_responses = n,
        !.response_times = [i \in 1..n |-> i],
        !.daily_activity = IF n = 0 THEN EmptyMap ELSE [k \in {"today"} |-> n],
        !.conversation_lengths = [i \in 1..n |-> (i % 3) + 1]]

InitTrim ==
    /\ router = "predict_router"
    /\ boot = "serving"
    /\ model = TrainedModel
    /\ encoder = TrainedEncoder
    /\ scaler = TrainedScaler
    /\ req = [r \in Requests |-> Idle]
    /\ served = 0
    /\ aux = None
    /\ analytics_file \in {StoredAfter(n) : n \in {0, MaxKept - 2, MaxKept - 1, MaxKept}}
    /\ track = [p \in Workers |-> Resting]

NextTrim ==
    \/ \E response_type \in {"ai", "fallback"}, response_time \in {0, 2001, 2002} :
          TrackLoad(1, [lower |-> "hi", len |-> 2], response_type, response_time, None)
    \/ SaveOpen(1)
    \/ SaveClose(1)

SpecTrim == InitTrim /\ [][NextTrim]_vars

\* Chatbot_router.py's chat endpoint against every upstream status
NextChatbot == ChatbotChat

SpecChatbot == InitServing /\ [][NextChatbot]_vars

\* one worker answering /chat with and without the provider, and the
\* summary endpoint
NextSummary ==
    \/ Chat(1, ChatMessages, ChatPredictions,
            {[kind |-> "timeout"], [kind |-> "text", len |-> 400]})
    \/ SaveOpen(1)
    \/ SaveClose(1)
    \/ GetAnalytics

SpecSummary == InitServing /\ [][NextSummary]_vars

(***************************************************************************)
(* Properties.                                                             *)
(***************************************************************************)
\* the field errors of the answer to a refused request
FieldErrors(r) ==
    IF req[r].state = "Rejected" THEN req[r].response.detail ELSE <<>>

\* the refusal names the field
Names(r, field) ==
    \E i \in DOMAIN FieldErrors(r) : FieldErrors(r)[i].loc = field

\* validation has decided the request
Decided(r) == req[r].state \notin {"Idle", "Received"}

ValidInput(r) ==
    /\ req[r].fuel_type \in {"X", "Z", "E", "D", "N"}
    /\ req[r].engine_size >= 90 /\ req[r].engine_size <= 840
    /\ req[r].cylinders >= 3 /\ req[r].cylinders <= 16

C2_EngineSizeBounds ==
    \A r \in Requests :
        Decided(r) =>
            LET inside == req[r].engine_size >= 90 /\ req[r].engine_size <= 840
            IN  /\ Names(r, "engine_size") <=> ~inside
                /\ ~inside => req[r].state = "Rejected" /\ req[r].response.status = 422
                /\ (inside /\ req[r].fuel_type \in {"X", "Z", "E", "D", "N"}
                      /\ req[r].cylinders >= 3 /\ req[r].cylinders <= 16)
                   => req[r].state = "Validated"

\* 8.41 is refused with an error that names engine_size and nothing else
C2_Witness ==
    \E r \in Requests :
        /\ req[r].state = "Rejected"
        /\ req[r].engine_size = 841
        /\ Names(r, "engine_size")
        /\ Len(FieldErrors(r)) = 1

\* C3: validation refuses cylinders, naming the field, exactly when it is
\* below 3 or above 16; 3 and 16 themselves are accepted.
C3_CylinderBounds ==
    \A r \in Requests :
        Decided(r) =>
            LET inside == req[r].cylinders >= 3 /\ req[r].cylinders <= 16
            IN  /\ Names(r, "cylinders") <=> ~inside
                /\ ~inside => req[r].state = "Rejected" /\ req[r].response.status = 422
                /\ (inside /\ req[r].fuel_type \in {"X", "Z", "E", "D", "N"}
                      /\ req[r].engine_size >= 90 /\ req[r].engine_size <= 840)
                   => req[r].state = "Validated"

\* 16 cylinders are accepted
C3_Witness ==
    \E r \in Requests :
        /\ req[r].state = "Validated"
        /\ req[r].cylinders = 16

\* C4: validation refuses fuel_type exactly when it is none of X, Z, E, D, N,
\* and /fuel-types lists exactly these five codes.
C4_FuelTypeSet ==
    /\ \A r \in Requests :
          Decided(r) =>
              LET member == req[r].fuel_type \in {"X", "Z", "E", "D", "N"}
              IN  /\ Names(r, "fuel_type") <=> ~member
                  /\ ~member => req[r].state = "Rejected" /\ req[r].response.status = 422
    /\ (aux # None /\ aux.endpoint = "/fuel-types") =>
          /\ {aux.fuel_types[i] : i \in DOMAIN aux.fuel_types} = {"X", "Z", "E", "D", "N"}
          /\ Len(aux.fuel_types) = 5

\* the code N has passed validation while /fuel-types has been answered
C4_Witness ==
    /\ aux # None /\ aux.endpoint = "/fuel-types"
    /\ \E r \in Requests :
          /\ req[r].state = "Validated"
          /\ req[r].fuel_type = "N"

\* C5: a request with a field outside its domain never reaches
\* preprocess_input or model.predict; it is answered 4xx with the validation
\* messages of exactly its offending fields, whatever artifacts are loaded.
C5_InvalidNeverReachesModel ==
    \A r \in Requests :
        (req[r].state # "Idle" /\ ~ValidInput(r)) =>
            /\ req[r].calls = {}
            /\ req[r].state \in {"Received", "Rejected"}
            /\ req[r].state = "Rejected" =>
                  /\ req[r].response.status >= 400 /\ req[r].response.status <= 499
                  /\ Len(FieldErrors(r)) >= 1
                  /\ \A i \in DOMAIN FieldErrors(r) : FieldErrors(r)[i].msg # ""

\* an out-of-range request has been refused while no artifact is loaded
C5_Witness ==
    \E r \in Requests :
        /\ req[r].state = "Rejected"
        /\ req[r].cylinders = 17
        /\ req[r].response.status = 422
        /\ model = None /\ encoder = None /\ scaler = None

\* C6: while the model, the encoder or the scaler is not loaded, a request
\* that passed validation is answered 503 and none of preprocess_input,
\* np.log, encoder.transform, scaler.transform, model.predict is called.
C6_MissingArtifact503 ==
    \A r \in Requests :
        (model = None \/ encoder = None \/ scaler = None) =>
            /\ req[r].calls = {}
            /\ req[r].state \in {"Idle", "Received", "Rejected", "Validated", "Failed"}
            /\ req[r].state = "Failed" => req[r].response.status = 503

\* the encoder alone is missing and a valid request has been answered 503
C6_Witness ==
    \E r \in Requests :
        /\ encoder = None /\ model # None /\ scaler # None
        /\ req[r].state = "Failed"
        /\ req[r].response.status = 503
        /\ req[r].calls = {}

\* the transitions the state machine of the specification allows
ClaimedTransitions ==
    { <<"Received", "Validated">>, <<"Validated", "Transformed">>,
      <<"Transformed", "Predicted">>, <<"Predicted", "Interpreted">>,
      <<"Interpreted", "Returned">>, <<"Received", "Rejected">>,
      <<"Transformed", "Failed">> }

\* a slot is taken by a new request, or given back by an answered one
SlotReuse ==
    { <<"Idle", "Received">>, <<"Rejected", "Idle">>, <<"Failed", "Idle">>,
      <<"Returned", "Idle">> }

\* C7 as stated: a request moves only along Received -> Validated ->
\* Transformed -> Predicted -> Interpreted -> Returned, Received -> Rejected
\* and Transformed -> Failed.
C7_ClaimedStateMachine ==
    [][\A r \in Requests :
          req'[r].state # req[r].state =>
              <<req[r].state, req'[r].state>> \in ClaimedTransitions \cup SlotReuse]_vars

\* C7, amended: a request moves only along Received -> Validated ->
\* Transformed -> Predicted -> Interpreted -> Returned, Received -> Rejected,
\* Validated -> Failed (an artifact is missing, answered 503 before any
\* transformation, or preprocess_input raises) and Transformed -> Failed
\* (model.predict raises); every other state of a request has a next step,
\* so Rejected, Failed and Returned are the only terminal states.
C7_StateMachine ==
    /\ [](\A r \in Requests :
             req[r].state \in {"Received", "Validated", "Transformed", "Predicted", "Interpreted"}
                 => ENABLED RequestSteps(r))
    /\ [](\A r \in Requests : req[r].state \in Terminal => ~ENABLED RequestSteps(r))
    /\ [][\A r \in Requests :
             req'[r].state # req[r].state =>
                 /\ <<req[r].state, req'[r].state>> \in
                        ClaimedTransitions \cup SlotReuse \cup {<<"Validated", "Failed">>}
                 /\ (req'[r].state = "Failed" /\ req'[r].response.status = 503)
                        <=> (req[r].state = "Validated"
                               /\ (model = None \/ encoder = None \/ scaler = None))
                 /\ (req[r].state = "Transformed" /\ req'[r].state = "Failed")
                        => "model.predict" \in req'[r].calls]_vars

\* a validated request has failed with 503 without ever being transformed
C7_Witness ==
    \E r \in Requests :
        /\ req[r].state = "Failed"
        /\ req[r].response.status = 503
        /\ "preprocess_input" \notin req[r].calls

\* C8 as stated: a failure of preprocess_input or model.predict on a
\* validated request is answered 5xx without the exception's text, and 4xx
\* answers only validation failures.
C8_InfrastructureErrorsAre5xx ==
    \A r \in Requests :
        /\ (req[r].state = "Failed" /\ "preprocess_input" \in req[r].calls) =>
              /\ req[r].response.status >= 500 /\ req[r].response.status <= 599
              /\ \A i \in DOMAIN req[r].response.detail :
                    req[r].response.detail[i] \notin
                        { "Found unknown categories in column 0 during transform",
                          "X has a different number of features than StandardScaler is expecting",
                          "Feature shape mismatch",
                          "regressor call failed" }
        /\ (req[r].state \in Terminal
              /\ req[r].response.status >= 400 /\ req[r].response.status <= 499)
              => req[r].state = "Rejected"

\* the answer of a request in a terminal state: one PredictionOutput, or one
\* HTTP error raised by the handler or by the schema
TypedOutcome(r) ==
    \/ /\ req[r].state = "Returned"
       /\ req[r].response.status = 200
       /\ req[r].response.body # None
       /\ req[r].response.body.predicted_co2_emissions = req[r].co2_value
    \/ /\ req[r].state \in {"Rejected", "Failed"}
       /\ req[r].response.status \in {400, 422, 503}
       /\ req[r].response.body = None

C10_ArtifactsImmutable ==
    [][boot = "serving" =>
          /\ model' = model
          /\ encoder' = encoder
          /\ scaler' = scaler
          /\ boot' = "serving"]_vars

\* all artifacts loaded; a request has been answered, a later one has been
\* transformed and predicted, and /model-info has read the encoder
C10_Witness ==
    /\ boot = "serving"
    /\ model = TrainedModel /\ encoder = TrainedEncoder /\ scaler = TrainedScaler
    /\ served >= 1
    /\ aux # None /\ aux.endpoint = "/model-info"
    /\ \E r \in Requests : req[r].state = "Returned"

\* the answers /predict gives to a request that runs alone, start to end,
\* against the loaded artifacts
AnswersAlone(fuel_type, engine_size, cylinders) ==
    LET errors == PredictionInput(fuel_type, engine_size, cylinders)
        pre == preprocess_input(fuel_type, engine_size, cylinders)
    IN  IF errors # <<>> THEN { RequestValidationError(errors) }
        ELSE IF model = None \/ encoder = None \/ scaler = None THEN { NotInitialized }
        ELSE IF ~pre.ok THEN { HandleException(pre) }
        ELSE UNION { IF ~out.ok THEN { HandleException(out) }
                     ELSE { Response(200, <<>>, PredictionOutput(v, interpret_emissions(v))) :
                                v \in round2(np_exp(out.value)) } :
                     out \in model_predict(model, pre.value, {}) }

\* C11: under every interleaving of two requests in flight and every history
\* of earlier requests, the answer to a request is the answer it gets when it
\* runs alone, and two requests with the same fuel_type, engine_size and
\* cylinders get the same answer.
C11_RequestsIndependent ==
    \A r \in DOMAIN req :
        req[r].state \in Terminal =>
            /\ req[r].response \in
                   AnswersAlone(req[r].fuel_type, req[r].engine_size, req[r].cylinders)
            /\ \A q \in DOMAIN req :
                   (/\ req[q].state \in Terminal
                    /\ req[q].fuel_type = req[r].fuel_type
                    /\ req[q].engine_size = req[r].engine_size
                    /\ req[q].cylinders = req[r].cylinders)
                   => req[q].response = req[r].response

\* after an earlier request was answered, two requests with different fuel
\* types have run at the same time and got different answers
C11_Witness ==
    /\ served >= 1
    /\ req[1].state = "Returned" /\ req[2].state = "Returned"
    /\ req[1].fuel_type = "X" /\ req[2].fuel_type = "D"
    /\ req[1].response # req[2].response

\* C12: in every 200 answer the number is the regressor's output, exp'd and
\* rounded to two decimals, and the category is the band of that returned
\* number (not of the unrounded one): 139.86 carries Good.
C12_CategoryOfReturnedValue ==
    \A r \in Requests :
        req[r].state = "Returned" =>
            LET body == req[r].response.body
                v == body.predicted_co2_emissions
            IN  /\ req[r].response.status = 200
                /\ v \in round2(np_exp(req[r].log_prediction))
                /\ body.category =
                       IF v < 12000 THEN "Excellent"
                       ELSE IF v < 16000 THEN "Good"
                       ELSE IF v < 20000 THEN "Average"
                       ELSE IF v < 25000 THEN "High"
                       ELSE "Very High"
                /\ v = 13986 => body.category = "Good"

\* 119.995 before rounding (below 120) was returned as 120.00 with Good
C12_Witness ==
    \E r \in Requests :
        /\ req[r].state = "Returned"
        /\ np_exp(req[r].log_prediction) = 119995
        /\ req[r].response.body.predicted_co2_emissions = 12000
        /\ req[r].response.body.category = "Good"

\* C13: every 200 answer carries a predicted_co2_emissions strictly greater
\* than 0, whatever log-scale value the regressor gave.
C13_PositiveEmissions ==
    \A r \in Requests :
        req[r].state = "Returned" =>
            req[r].response.body.predicted_co2_emissions > 0

\* the one-hot part of the vector a transformed request carries: the entries
\* after the two numeric ones, as they were before scaling
OneHotPart(r) ==
    [i \in 1..(Len(req[r].features) - 2) |-> req[r].features[i + 2].scaled]

Subject(msg) ==
    CASE msg = "Engine size must be between 0.9 and 8.4 liters"
             -> [field |-> "engine_size", low |-> 90, high |-> 840]
      [] msg = "Cylinders must be between 3 and 16"
             -> [field |-> "cylinders", low |-> 3, high |-> 16]
      [] OTHER -> [field |-> "fuel_type", low |-> 0, high |-> 0]

\* the request's refusal has an entry for the field whose text speaks of
\* that field and gives the bound that value v broke
Explains(r, field, v, low, high) ==
    \E i \in DOMAIN FieldErrors(r) :
        /\ FieldErrors(r)[i].loc = field
        /\ Subject(FieldErrors(r)[i].msg).field = field
        /\ v < low => Subject(FieldErrors(r)[i].msg).low = low
        /\ v > high => Subject(FieldErrors(r)[i].msg).high = high

\* no entry of the refusal is about the field, by location or by text
Silent(r, field) ==
    \A i \in DOMAIN FieldErrors(r) :
        /\ FieldErrors(r)[i].loc # field
        /\ Subject(FieldErrors(r)[i].msg).field # field

\* C15: the refusal of an out-of-range engine_size or cylinders names that
\* field and the bound it broke; a request with only engine_size out of
\* range gets no message about cylinders, and the other way round.
C15_RejectionNamesFieldAndBound ==
    \A r \in Requests :
        Decided(r) =>
            LET e == req[r].engine_size
                c == req[r].cylinders
                e_out == e < 90 \/ e > 840
                c_out == c < 3 \/ c > 16
            IN  /\ e_out => Explains(r, "engine_size", e, 90, 840)
                /\ c_out => Explains(r, "cylinders", c, 3, 16)
                /\ ~e_out => Silent(r, "engine_size")
                /\ ~c_out => Silent(r, "cylinders")

\* 17 cylinders with a valid engine size: one entry, about cylinders only
C15_Witness ==
    \E r \in Requests :
        /\ req[r].state = "Rejected"
        /\ req[r].engine_size = 200 /\ req[r].cylinders = 17
        /\ FieldErrors(r) = <<[loc |-> "cylinders", msg |-> "Cylinders must be between 3 and 16"]>>

\* the handler of /predict has been entered for the request
HandlerEntered(r) ==
    req[r].state \in {"Transformed", "Predicted", "Interpreted", "Returned", "Failed"}

\* C16: /health says healthy exactly when model, encoder and scaler are all
\* loaded, and unhealthy otherwise; these are exactly the states in which
\* the /predict handler does not answer 503; each *_loaded flag is the load
\* state of its artifact.
C16_HealthMatchesPredict ==
    (aux # None /\ aux.endpoint = "/health") =>
        LET loaded == model # None /\ encoder # None /\ scaler # None
        IN  /\ aux.status = (IF loaded THEN "healthy" ELSE "unhealthy")
            /\ aux.model_loaded = (model # None)
            /\ aux.encoder_loaded = (encoder # None)
            /\ aux.scaler_loaded = (scaler # None)
            /\ \A r \in Requests :
                   HandlerEntered(r) =>
                       ((req[r].state = "Failed" /\ req[r].response.status = 503)
                            <=> aux.status = "unhealthy")

\* only the scaler is missing: /health says unhealthy and /predict 503
C16_Witness ==
    /\ aux # None /\ aux.endpoint = "/health"
    /\ aux.status = "unhealthy"
    /\ aux.model_loaded /\ aux.encoder_loaded /\ ~aux.scaler_loaded
    /\ \E r \in Requests : req[r].state = "Failed" /\ req[r].response.status = 503

\* C17: every 200 answer has unit 'g/km', and any two 200 answers with the
\* same category carry the same colour and the same description.
C17_FixedPresentation ==
    \A r \in DOMAIN req :
        req[r].state = "Returned" =>
            /\ req[r].response.body.unit = "g/km"
            /\ \A q \in DOMAIN req :
                   (/\ req[q].state = "Returned"
                    /\ req[q].response.body.category = req[r].response.body.category)
                   => /\ req[q].response.body.color = req[r].response.body.color
                      /\ req[q].response.body.interpretation
                             = req[r].response.body.interpretation

\* 200.00 and 249.99 have been returned side by side, both High
C17_Witness ==
    /\ req[1].state = "Returned" /\ req[2].state = "Returned"
    /\ req[1].response.body.predicted_co2_emissions = 20000
    /\ req[2].response.body.predicted_co2_emissions = 24999
    /\ req[1].response.body.category = "High"
    /\ req[2].response.body.category = "High"
    /\ req[1].response.body.color = req[2].response.body.color

\* track_request calls that have ended, over all workers
RECURSIVE CallsEnded(_)
CallsEnded(P) ==
    IF P = {} THEN 0
    ELSE LET p == CHOOSE x \in P : TRUE
         IN  track[p].calls + CallsEnded(P \ {p})

\* C18: once every track_request that was started has ended, the stored
\* total_requests has grown by exactly the number of calls, whatever the
\* interleaving of the workers' loads and saves.
C18_NoLostUpdate ==
    (\A p \in Workers : track[p].pc = "idle") =>
        /\ analytics_file.kind = "json"
        /\ analytics_file.total_requests = CallsEnded(Workers)

\* C19: the vector a valid request is transformed into is, in this order,
\* log(engine_size), log(cylinders), then one indicator per column of the
\* loaded encoder; its length is 2 + the number of encoder columns; the
\* scaler has gone over every entry and left each in its column.
C19_VectorLayout ==
    \A r \in Requests :
        req[r].state = "Transformed" =>
            LET x == req[r].features
                shift == IF encoder.drop = "first" THEN 1 ELSE 0
                width == Len(encoder.categories) - shift
            IN  /\ ValidInput(r)
                /\ Len(x) = 2 + width
                /\ x[1].scaled = [ln |-> 10 * req[r].engine_size]
                /\ x[2].scaled = [ln |-> 1000 * req[r].cylinders]
                /\ \A i \in 1..width :
                       x[i + 2].scaled =
                           (IF encoder.categories[i + shift] = req[r].fuel_type THEN 1 ELSE 0)
                /\ \A i \in 1..Len(x) : x[i].column = i
                /\ {"np.log", "encoder.transform", "scaler.transform"} \subseteq req[r].calls

\* 8.4 L, 16 cylinders, fuel Z through a five-column encoder: seven entries,
\* the last one the indicator of Z
C19_Witness ==
    \E r \in Requests :
        /\ req[r].state = "Transformed"
        /\ req[r].fuel_type = "Z" /\ req[r].engine_size = 840 /\ req[r].cylinders = 16
        /\ Len(req[r].features) = 7
        /\ req[r].features[1].scaled = [ln |-> 8400]
        /\ req[r].features[2].scaled = [ln |-> 16000]
        /\ req[r].features[7].scaled = 1

\* C20: for the same fuel_type, engine_size and cylinders and the same
\* encoder and scaler, utils.preprocess.preprocess_input gives the vector
\* the router's preprocess_input gives.
C20_PreprocessingAgrees ==
    \A r \in Requests :
        (/\ req[r].state = "Transformed"
         /\ aux # None
         /\ aux.endpoint = "utils.preprocess.preprocess_input"
         /\ aux.fuel_type = req[r].fuel_type
         /\ aux.engine_size = req[r].engine_size
         /\ aux.cylinders = req[r].cylinders)
        => /\ aux.result.ok
           /\ aux.result.value = req[r].features

ArtifactMissing(res) ==
    /\ ~res.ok
    /\ res.msg \in {"Encoder not loaded. Cannot perform one-hot encoding.",
                    "Scaler not loaded. Cannot perform feature scaling."}

\* the error says that the category is not one the encoder was fitted on
InvalidCategory(res) ==
    /\ ~res.ok
    /\ res.msg = "Found unknown categories in column 0 during transform"

\* C22: preprocess_input called while the encoder or the scaler is not
\* loaded fails with an artifact-missing error and gives no vector; called
\* with a fuel_type the encoder was not fitted on it fails with an
\* invalid-category error.
C22_TransformerDefensive ==
    (aux # None /\ aux.endpoint = "preprocess_input") =>
        LET res == aux.result
            unknown == encoder # None /\
                       \A i \in 1..Len(encoder.categories) :
                            encoder.categories[i] # aux.fuel_type
        IN  /\ encoder = None => ArtifactMissing(res)
            /\ (unknown /\ scaler # None) => InvalidCategory(res)
            /\ (unknown /\ scaler = None) => (InvalidCategory(res) \/ ArtifactMissing(res))
            /\ (encoder # None /\ ~unknown /\ scaler = None) => ArtifactMissing(res)

\* severity rank of a category; 0 for anything that is not one of the five
Rank(category) ==
    CASE category = "Excellent" -> 1
      [] category = "Good" -> 2
      [] category = "Average" -> 3
      [] category = "High" -> 4
      [] category = "Very High" -> 5
      [] OTHER -> 0

\* C23: every CO2 value gets exactly one of the five categories, and the
\* rank of the category never falls when the value rises: each classified
\* value v ranks at least as high as v - 0.01 does, from Excellent at 0.
C23_ClassificationMonotone ==
    \A r \in Requests :
        req[r].state \in {"Interpreted", "Returned"} =>
            LET v == req[r].co2_value
                cat == req[r].interpretation.category
            IN  /\ Rank(cat) \in 1..5
                /\ Cardinality({c \in {"Excellent", "Good", "Average", "High", "Very High"} :
                                    c = cat}) = 1
                /\ v = 0 => Rank(cat) = 1
                /\ v > 0 => /\ Rank(interpret_emissions(v - 1).category) <= Rank(cat)
                            /\ Rank(cat) <= Rank(interpret_emissions(v - 1).category) + 1

\* 160.00 has been classified Average, one rank above 159.99
C23_Witness ==
    \E r \in Requests :
        /\ req[r].state = "Interpreted"
        /\ req[r].co2_value = 16000
        /\ Rank(req[r].interpretation.category) = 3
        /\ Rank(interpret_emissions(15999).category) = 2

\* C24: a step in which /analytics/reset answers with its success message,
\* no track_request being under way, leaves the stored analytics at the
\* initial data: the three counters 0, every map and list empty.
C24_ResetClears ==
    [][(/\ \A p \in Workers : track[p].pc = "idle"
        /\ track' = track
        /\ aux'.endpoint = "/analytics/reset")
          => /\ analytics_file'.kind = "json"
             /\ analytics_file'.total_requests = 0
             /\ analytics_file'.ai_responses = 0
             /\ analytics_file'.fallback_responses = 0
             /\ analytics_file'.common_questions = EmptyMap
             /\ analytics_file'.fallback_triggers = EmptyMap
             /\ analytics_file'.user_categories = EmptyMap
             /\ analytics_file'.daily_activity = EmptyMap
             /\ analytics_file'.response_times = <<>>
             /\ analytics_file'.conversation_lengths = <<>>]_vars

\* C25: every /chat request that has ended was answered by a ChatResponse,
\* whatever the provider did and whether or not the tracking failed; the
\* type is 'ai' exactly when the provider gave a text of 20 characters or
\* more, and that text is the answer; otherwise the type is 'fallback' and
\* the answer is the fallback text.
C25_ChatAlwaysAnswers ==
    \A p \in Workers :
        (track[p].pc = "idle" /\ track[p].request # None) =>
            LET outcome == track[p].request.outcome
                answer == track[p].response
                generated == outcome.kind = "text" /\ outcome.len >= 20
            IN  /\ answer # None
                /\ answer.kind = "ChatResponse"
                /\ answer.response_type \in {"ai", "fallback"}
                /\ answer.response_type = "ai" <=> generated
                /\ generated => (/\ "generated_text" \in DOMAIN answer.response
                                 /\ answer.response.len = outcome.len)
                /\ ~generated => "fallback" \in DOMAIN answer.response

\* the provider timed out and the analytics file could not be read: the
\* request was answered with the fallback text all the same
C25_Witness ==
    \E p \in Workers :
        /\ track[p].pc = "idle" /\ track[p].request # None
        /\ track[p].request.outcome.kind = "timeout"
        /\ ~track[p].request.tracked
        /\ track[p].response.response_type = "fallback"

\* C26: in the stored data total_requests = ai_responses +
\* fallback_responses; a call that loads the data saves it with
\* total_requests raised by 1 and exactly one of the two response counters
\* raised by 1, ai_responses iff the type is 'ai'; a call that fails before
\* saving leaves the stored data as it was.
C26_CountersConsistent ==
    /\ [](analytics_file.kind = "json" =>
            analytics_file.total_requests
                = analytics_file.ai_responses + analytics_file.fallback_responses)
    /\ [][/\ (track[1].pc = "idle" /\ track'[1].pc = "loaded") =>
               LET new == track'[1].analytics
                   ai == track'[1].args.response_type = "ai"
               IN  /\ new.total_requests = analytics_file.total_requests + 1
                   /\ new.ai_responses
                          = analytics_file.ai_responses + (IF ai THEN 1 ELSE 0)
                   /\ new.fallback_responses
                          = analytics_file.fallback_responses + (IF ai THEN 0 ELSE 1)
          /\ (track[1].pc = "writing" /\ track'[1].pc = "idle") =>
               analytics_file' = track[1].analytics
          /\ (track[1].pc = "idle" /\ track'[1].pc = "idle") =>
               analytics_file' = analytics_file]_vars

\* two calls have been saved, one of each type
C26_Witness ==
    /\ track[1].pc = "idle" /\ track[1].calls = 2
    /\ analytics_file.kind = "json"
    /\ analytics_file.total_requests = 2
    /\ analytics_file.ai_responses = 1
    /\ analytics_file.fallback_responses = 1

\* new is old with x appended, cut to its last 1000 entries
MostRecent(old, x, new) ==
    LET n == IF Len(old) + 1 > 1000 THEN 1000 ELSE Len(old) + 1
        skip == Len(old) + 1 - n
    IN  /\ Len(new) = n
        /\ new[n] = x
        /\ \A i \in 1..(n - 1) : new[i] = old[i + skip]

\* C27: the stored response_times and conversation_lengths never hold more
\* than 1000 entries, and a call leaves in each list the entries it found
\* followed by its own, cut to the most recent 1000, in arrival order.
C27_ListsBounded ==
    /\ [](analytics_file.kind = "json" =>
            /\ Len(analytics_file.response_times) <= 1000
            /\ Len(analytics_file.conversation_lengths) <= 1000)
    /\ [][(track[1].pc = "idle" /\ track'[1].pc = "loaded") =>
             LET new == track'[1].analytics
                 args == track'[1].args
             IN  /\ Len(new.response_times) <= 1000
                 /\ Len(new.conversation_lengths) <= 1000
                 /\ MostRecent(analytics_file.conversation_lengths,
                               args.user_message.len, new.conversation_lengths)
                 /\ IF args.response_time = 0
                    THEN new.response_times = analytics_file.response_times
                    ELSE MostRecent(analytics_file.response_times,
                                    args.response_time, new.response_times)]_vars

\* the file held 1000 times; a call has stored its own at the end and the
\* oldest one is gone
C27_Witness ==
    /\ track[1].pc = "idle" /\ track[1].calls = 1
    /\ analytics_file.kind = "json"
    /\ Len(analytics_file.response_times) = 1000
    /\ analytics_file.response_times[1] = 2
    /\ analytics_file.response_times[1000] = 2001

C29_FallbackTriggerTracked ==
    /\ (/\ track[1].pc = "idle" /\ track[1].request # None
        /\ track[1].request.tracked
        /\ track[1].response.response_type = "fallback"
        /\ analytics_file.kind = "json")
       => /\ track[1].response.response.fallback \in DOMAIN analytics_file.fallback_triggers
          /\ analytics_file.fallback_triggers[track[1].response.response.fallback] >= 1
    /\ (/\ aux # None /\ aux.endpoint = "/analytics"
        /\ "fallback_responses" \in DOMAIN aux
        /\ aux.fallback_responses >= 1)
       => aux.fallback_triggers # EmptyMap

\* the answers the /predict endpoint of revision rt gives to a request, with
\* the artifacts as loaded, when the regressor returns exp-value pick on
\* the vector (pick = 0: the call raises)
AnswersOf(rt, fuel_type, engine_size, cylinders, pick) ==
    LET errors == PredictionInput(fuel_type, engine_size, cylinders)
        pre == IF rt = "predict_router"
               THEN preprocess_input_predict_router(fuel_type, engine_size, cylinders)
               ELSE preprocess_input_prediction_router(fuel_type, engine_size, cylinders)
    IN  IF errors # <<>> THEN { RequestValidationError(errors) }
        ELSE IF model = None \/ encoder = None \/ scaler = None THEN { NotInitialized }
        ELSE IF ~pre.ok THEN { HandleException(pre) }
        ELSE LET all == model_predict(model, pre.value, {pick})
                 outs == IF \A o \in all : ~o.ok THEN all
                         ELSE IF pick = 0 THEN {o \in all : ~o.ok}
                         ELSE {o \in all : o.ok}
             IN  UNION { IF ~out.ok THEN { HandleException(out) }
                         ELSE { Response(200, <<>>,
                                    PredictionOutput(v,
                                        IF rt = "predict_router"
                                        THEN interpret_emissions_predict_router(v)
                                        ELSE interpret_emissions_prediction_router(v))) :
                                v \in round2(np_exp(out.value)) } :
                         out \in outs }

\* status, and on success value and category (and colour), of an answer
Outcome(a) ==
    IF a.status = 200
    THEN [status |-> 200, value |-> a.body.predicted_co2_emissions,
          category |-> a.body.category]
    ELSE [status |-> a.status]

OutcomeWithColor(a) ==
    IF a.status = 200
    THEN [status |-> 200, value |-> a.body.predicted_co2_emissions,
          category |-> a.body.category, color |-> a.body.color]
    ELSE [status |-> a.status]

Picks == OutputSamples \cup {0}

====
